---- MODULE Spec2Model ----
(***************************************************************************)
(* BulkCache of terraform-provider-linear (internal/provider/bulk_cache.go) *)
(* Four lazily populated category caches (labels, workflow states,         *)
(* templates, teams), each guarded by a sync.Once, filled by a cursor-     *)
(* chained page loop (templates: one whole-list call) and read by the      *)
(* lookup methods GetLabel, GetWorkflowState, GetWorkflowStatesByTeamID,   *)
(* GetTemplate and GetTeamByKey, called from concurrent goroutines.        *)
(***************************************************************************)
EXTENDS Integers, Sequences, FiniteSets, TLC

(* ------------------------------ bounds -------------------------------- *)

\* number of concurrent callers (goroutines calling the lookup methods)
NumCallers == 2

\* total number of lookups started in one run
MaxCalls == 2

Callers == 1..NumCallers

(* ------------------------- categories and ops ------------------------- *)

Cats == {"labels", "workflowStates", "templates", "teams"}

Ops == {"GetLabel", "GetWorkflowState", "GetWorkflowStatesByTeamID",
        "GetTemplate", "GetTeamByKey"}

\* faulty variant of CatOf: GetWorkflowStatesByTeamID calls ensureTeams
\* instead of ensureWorkflowStates
CatOfOtherGate(o) ==
    CASE o = "GetLabel" -> "labels"
      [] o = "GetWorkflowState" -> "workflowStates"
      [] o = "GetWorkflowStatesByTeamID" -> "teams"
      [] o = "GetTemplate" -> "templates"
      [] o = "GetTeamByKey" -> "teams"

\* the ensure method (and so the category) each lookup method calls first
CatOf(o) ==
    CASE o = "GetLabel" -> "labels"
      [] o = "GetWorkflowState" -> "workflowStates"
      [] o = "GetWorkflowStatesByTeamID" -> "workflowStates"
      [] o = "GetTemplate" -> "templates"
      [] o = "GetTeamByKey" -> "teams"

\* labels, workflow states and teams are fetched page by page; templates
\* by one whole-list call
Paginated(c) == c # "templates"

(* ------------------------------ records ------------------------------- *)

\* a remote record: identifier, team key (teams), owning team (workflow
\* states), and the page that delivered it
Rec(i, k, t, pg) == [id |-> i, key |-> k, team |-> t, page |-> pg]

NilCursor == "nil"

\* error values: nil, the two failures of a remote call, and the error
\* fmt.Errorf builds for an absent identifier
NilErr == [kind |-> "nil", detail |-> <<>>]
TransportErr == [kind |-> "transport", detail |-> <<>>]
CanceledErr == [kind |-> "context canceled", detail |-> <<>>]
NotFoundKind == "not found in bulk cache"
NotFoundErr(c, i) == [kind |-> NotFoundKind, detail |-> <<c, i>>]

Page(ns, more, cur) == [nodes |-> ns, hasNextPage |-> more, endCursor |-> cur]

\* three pages, cursors A, B, C, disjoint identifiers, owners {T1,T1,T2}
ThreePages ==
    << Page(<<Rec("i1", "k1", "T1", 1)>>, TRUE, "A"),
       Page(<<Rec("i2", "k2", "T1", 2)>>, TRUE, "B"),
       Page(<<Rec("i3", "k3", "T2", 3)>>, FALSE, "C") >>

\* one page with no items and no further page
EmptyPage == << Page(<<>>, FALSE, "") >>

\* the same identifier (and key) delivered on two pages
DupPages ==
    << Page(<<Rec("i1", "k1", "T1", 1), Rec("i2", "k2", "T1", 1)>>, TRUE, "A"),
       Page(<<Rec("i1", "k1", "T2", 2)>>, FALSE, "B") >>

DataSets == {ThreePages, EmptyPage, DupPages}

Ids == {"i1", "zz"}
Keys == {"k1", "i1"}
TeamIds == {"T1", "T3"}

\* the arguments a caller passes to each lookup method
Args(o) ==
    CASE o = "GetTeamByKey" -> Keys
      [] o = "GetWorkflowStatesByTeamID" -> TeamIds
      [] OTHER -> Ids

VARIABLES
    data,       \* the remote dataset: the pages the list operations serve
    onceDone,   \* per category: sync.Once.done
    onceM,      \* per category: holder of sync.Once.m (0: unlocked)
    items,      \* per category: the map field (labels, workflowStates, ...)
    err,        \* per category: the error field (labelsErr, ...)
    requests,   \* per category: the list requests issued so far (history)
    runs,       \* per category: times the populate closure was entered
    pc,         \* per caller: position in the lookup method
    op,         \* per caller: the lookup method called
    ctx,        \* per caller: its context ("live" or "cancelled")
    cursor,     \* per caller: the local cursor of the page loop
    last,       \* the lookup that returned last: caller, call, result
    calls,      \* lookups started so far
    trigger,    \* per category: the lookup method whose call entered the
                \* populate closure ("none" before) (history)
    missed      \* per category: some lookup returned not-found (history)

vars == <<data, onceDone, onceM, items, err, requests, runs,
          pc, op, ctx, cursor, last, calls, trigger, missed>>

(* ------------------------------- maps --------------------------------- *)

\* faulty variant of NilMap: the constructor makes the maps
NilMapMade == [nil |-> FALSE, m |-> <<>>]

\* a Go map field: nil until make() runs
NilMap == [nil |-> TRUE, m |-> <<>>]

\* faulty variant of MakeMap: make() is forgotten and the field stays nil
MakeMapForgotten == [nil |-> TRUE, m |-> <<>>]

MakeMap == [nil |-> FALSE, m |-> <<>>]

\* faulty variant of MapPut: an entry already present is kept
MapPutKeepsFirst(mp, k, r) ==
    [nil |-> FALSE,
     m |-> [x \in (DOMAIN mp.m) \cup {k} |->
               IF x \in DOMAIN mp.m THEN mp.m[x] ELSE r]]

\* faulty variant of MapPut: the map is replaced by one holding only the
\* new entry
MapPutFresh(mp, k, r) == [nil |-> FALSE, m |-> [x \in {k} |-> r]]

\* m[k] = &r
MapPut(mp, k, r) ==
    [nil |-> FALSE,
     m |-> [x \in (DOMAIN mp.m) \cup {k} |-> IF x = k THEN r ELSE mp.m[x]]]

\* faulty variant of MergeNodes: teams are stored under their identifier
\* like the other categories
RECURSIVE MergeNodesById(_, _, _)
MergeNodesById(mp, ns, c) ==
    IF ns = <<>> THEN mp
    ELSE MergeNodesById(MapPut(mp, Head(ns).id, Head(ns)), Tail(ns), c)

\* for _, node := range nodes { m[key(node)] = &node }
RECURSIVE MergeNodes(_, _, _)
MergeNodes(mp, ns, c) ==
    IF ns = <<>> THEN mp
    ELSE MergeNodes(MapPut(mp, IF c = "teams" THEN Head(ns).key ELSE Head(ns).id,
                           Head(ns)),
                    Tail(ns), c)

(* --------------------------- remote server ---------------------------- *)

\* the page a list request with this cursor is answered with
ServerPage(d, cur) ==
    IF cur = NilCursor THEN d[1]
    ELSE d[(CHOOSE i \in 1..Len(d) : d[i].endCursor = cur) + 1]

\* the whole list answered to listAllTemplates
RECURSIVE WholeList(_)
WholeList(d) ==
    IF d = <<>> THEN <<>> ELSE Head(d).nodes \o WholeList(Tail(d))

\* outcomes of one remote call made under context cx
Outcomes(cx) ==
    IF cx = "cancelled" THEN {CanceledErr} ELSE {NilErr, TransportErr}

(* ------------------------------- init --------------------------------- *)

\* a returned (value, error) pair; val is <<>> for a nil pointer / nil slice
Result(v, e) == [val |-> v, e |-> e]

\* a returned lookup: a goroutine called o(cx, a), its ensure call went
\* the way via ("ran" the closure, "waited" for it, "skipped" it), and it
\* got r
Returned(o, a, cx, via, r) ==
    [op |-> o, arg |-> a, ctx |-> cx, via |-> via, val |-> r.val, e |-> r.e]
NoLast == Returned("none", "", "live", "none", Result(<<>>, NilErr))

\* a list request: its cursor, whether the gate of its category had
\* completed when it was sent, and its outcome (Pending until it returns,
\* then nil or the error)
Pending == [kind |-> "pending", detail |-> <<>>]
Request(cur, late) == [cursor |-> cur, late |-> late, out |-> Pending]

\* the pending request of the sequence rs (its last) has returned e
Answered(rs, e) == [rs EXCEPT ![Len(rs)].out = e]

Init ==
    /\ data \in DataSets
    /\ onceDone = [c \in Cats |-> FALSE]
    /\ onceM = [c \in Cats |-> 0]
    /\ items = [c \in Cats |-> NilMap]
    /\ err = [c \in Cats |-> NilErr]
    /\ requests = [c \in Cats |-> <<>>]
    /\ runs = [c \in Cats |-> 0]
    /\ pc = [p \in Callers |-> "idle"]
    /\ op = [p \in Callers |-> "GetLabel"]
    /\ ctx = [p \in Callers |-> "live"]
    /\ cursor = [p \in Callers |-> NilCursor]
    /\ last = NoLast
    /\ calls = 0
    /\ trigger = [c \in Cats |-> "none"]
    /\ missed = [c \in Cats |-> FALSE]

(* ------------------------------ lookups ------------------------------- *)

\* faulty variant of GetByID: the ok flag of the map read is ignored, an
\* absent identifier gives (nil, nil)
GetByIDNoOkCheck(e, mp, c, i) ==
    IF e # NilErr THEN Result(<<>>, e)
    ELSE IF i \notin DOMAIN mp.m THEN Result(<<>>, NilErr)
    ELSE Result(<<mp.m[i]>>, NilErr)

\* faulty variant of GetByID: the map is consulted before the error slot
GetByIDMapFirst(e, mp, c, i) ==
    IF i \in DOMAIN mp.m THEN Result(<<mp.m[i]>>, NilErr)
    ELSE IF e # NilErr THEN Result(<<>>, e)
    ELSE Result(<<>>, NotFoundErr(c, i))

\* GetLabel / GetWorkflowState / GetTemplate / GetTeamByKey after the
\* ensure step, reading error slot e and map mp of category c: the error
\* slot first, then the map
GetByID(e, mp, c, i) ==
    IF e # NilErr THEN Result(<<>>, e)
    ELSE IF i \notin DOMAIN mp.m THEN Result(<<>>, NotFoundErr(c, i))
    ELSE Result(<<mp.m[i]>>, NilErr)

\* faulty variant of TeamMatches: the team test is left out
TeamMatchesAll(mp, t) == DOMAIN mp.m

\* the keys of the workflow states GetWorkflowStatesByTeamID appends
TeamMatches(mp, t) == {k \in DOMAIN mp.m : mp.m[k].team = t}

\* the orders in which range may visit the keys ks
Orders(ks) ==
    {s \in [1..Cardinality(ks) -> ks] :
        \A a, b \in 1..Cardinality(ks) : a # b => s[a] # s[b]}

\* GetWorkflowStatesByTeamID after the ensure step
GetByTeamID(e, mp, t) ==
    IF e # NilErr THEN {Result(<<>>, e)}
    ELSE {Result([n \in 1..Len(s) |-> mp.m[s[n]]], NilErr) :
             s \in Orders(TeamMatches(mp, t))}

\* the results lookup method o may return for argument a
LookupResults(e, mp, o, a) ==
    IF o = "GetWorkflowStatesByTeamID" THEN GetByTeamID(e, mp, a)
    ELSE {GetByID(e, mp, CatOf(o), a)}

(* ------------------------------ sync.Once ----------------------------- *)

\* faulty variant of GateOpen: done is not tested again under the mutex
GateOpenNoRecheck(c) == onceM[c] = 0

\* faulty variant of GateOpen: the four gates share one mutex
GateOpenOneLock(c) == ~onceDone[c] /\ \A d \in Cats : onceM[d] = 0

\* faulty variant of GateOpen: done is tested without taking the mutex
GateOpenNoLock(c) == ~onceDone[c]

\* Once.Do runs the closure: done is unset and the mutex is free
GateOpen(c) == ~onceDone[c] /\ onceM[c] = 0

\* faulty variant of GatePassed: Once.Do returns without waiting for a
\* running closure
GatePassedNoWait(c) == onceDone[c] \/ onceM[c] # 0

\* Once.Do returns without running the closure
GatePassed(c) == onceDone[c]

\* faulty variant of DoneAfter: done is never stored
DoneNever(e) == FALSE

\* faulty variant of DoneAfter: done is stored only when the closure
\* succeeded (a failed fetch is retried)
DoneOnSuccessOnly(e) == e = NilErr

\* the deferred done.Store(1) runs however the closure returned
DoneAfter(e) == TRUE

\* faulty variant of UnlockAfter: the mutex is released only when the
\* closure succeeded
UnlockOnSuccessOnly(e) == IF e = NilErr THEN 0 ELSE 1

\* the deferred m.Unlock() runs however the closure returned
UnlockAfter(e) == 0

(* ------------------------------ actions ------------------------------- *)

\* the part of a lookup method after its ensure call: the call o(cx, a)
\* of goroutine p returns a result read from error slot e and map mp, and
\* the goroutine is free to call again. The argument a (id, key, teamID)
\* is first read here, so it is drawn here
Finish(p, o, cx, via, e, mp) ==
    /\ \E a \in Args(o) : \E r \in LookupResults(e, mp, o, a) :
          /\ last' = Returned(o, a, cx, via, r)
          /\ missed' = [missed EXCEPT ![CatOf(o)] = @ \/ r.e.kind = NotFoundKind]
    /\ pc' = [pc EXCEPT ![p] = "idle"]
    /\ op' = [op EXCEPT ![p] = "GetLabel"]
    /\ ctx' = [ctx EXCEPT ![p] = "live"]

\* Once.Do, holding the mutex with done unset, runs the closure for the
\* call o(cx, ..) of goroutine p: the paginated categories make the map
\* and start the page loop with a nil cursor
Enter(p, o, cx, c) ==
    /\ onceM' = [onceM EXCEPT ![c] = p]
    /\ runs' = [runs EXCEPT ![c] = @ + 1]
    /\ items' = IF Paginated(c) THEN [items EXCEPT ![c] = MakeMap] ELSE items
    /\ cursor' = [cursor EXCEPT ![p] = NilCursor]
    /\ pc' = [pc EXCEPT ![p] = "request"]
    /\ op' = [op EXCEPT ![p] = o]
    /\ ctx' = [ctx EXCEPT ![p] = cx]
    /\ trigger' = [trigger EXCEPT ![c] = o]
    /\ UNCHANGED <<onceDone, err, last, missed>>

\* faulty variant of Return: a not-found error is kept in the error slot
ReturnStoresNotFound(p, o, cx, via, c) ==
    /\ Finish(p, o, cx, via, err[c], items[c])
    /\ err' = [err EXCEPT ![c] = IF last'.e.kind = NotFoundKind
                                  THEN last'.e ELSE @]
    /\ UNCHANGED <<onceDone, onceM, items, runs, cursor, trigger>>

\* the part of a lookup method after an ensure call that did not run the
\* closure: it only reads the error slot and the map of its category
Return(p, o, cx, via, c) ==
    /\ Finish(p, o, cx, via, err[c], items[c])
    /\ UNCHANGED <<onceDone, onceM, items, err, runs, cursor, trigger>>

\* a goroutine calls a lookup method, which calls ensureX: Once.Do either
\* finds the gate completed (the method goes on to its result), or takes
\* the mutex and runs the closure, or blocks on the mutex
Call(p) ==
    /\ pc[p] = "idle"
    /\ calls < MaxCalls
    /\ calls' = calls + 1
    /\ \E o \in Ops : \E cx \in {"live", "cancelled"} :
          LET c == CatOf(o) IN
          IF GatePassed(c)
          THEN Return(p, o, cx, "skipped", c)
          ELSE IF GateOpen(c)
          THEN Enter(p, o, cx, c)
          ELSE /\ pc' = [pc EXCEPT ![p] = "blocked"]
               /\ op' = [op EXCEPT ![p] = o]
               /\ ctx' = [ctx EXCEPT ![p] = cx]
               /\ UNCHANGED <<onceDone, onceM, items, err, runs, cursor,
                              last, trigger, missed>>
    /\ UNCHANGED <<data, requests>>

\* a caller blocked in Once.Do gets the mutex: it finds done set and its
\* lookup method goes on to its result (or, were done unset, it would run
\* the closure)
Wake(p) ==
    LET c == CatOf(op[p]) IN
    /\ pc[p] = "blocked"
    /\ onceM[c] = 0
    /\ IF GateOpen(c)
       THEN Enter(p, op[p], ctx[p], c)
       ELSE Return(p, op[p], ctx[p], "waited", c)
    /\ UNCHANGED <<data, requests, calls>>

\* the closure returns with error slot e and map mp: Once.Do stores done
\* and unlocks, and the lookup method of the caller that ran it goes on to
\* its result
Leave(p, c, e, mp) ==
    /\ onceDone' = [onceDone EXCEPT ![c] = DoneAfter(e)]
    /\ onceM' = [onceM EXCEPT ![c] = UnlockAfter(e)]
    /\ Finish(p, op[p], ctx[p], "ran", e, mp)

\* faulty variant of NextCursor: the cursor is not advanced
NextCursorStale(page) == NilCursor

\* the cursor of the next request
NextCursor(page) == page.endCursor

\* faulty variant of LoopEnds: the loop ends after the first page
LoopEndsAtOnce(page) == TRUE

\* the page loop ends
LoopEnds(page) == ~page.hasNextPage

\* listAllXPage(ctx, c.client, cursor) is sent
ListPageCall(p) ==
    LET c == CatOf(op[p]) IN
    /\ pc[p] = "request"
    /\ Paginated(c)
    /\ requests' = [requests EXCEPT ![c] =
                        Append(@, Request(cursor[p], onceDone[c]))]
    /\ pc' = [pc EXCEPT ![p] = "await"]
    /\ UNCHANGED <<data, onceDone, onceM, items, err, runs,
                   op, ctx, cursor, last, calls, trigger, missed>>

\* listAllXPage returns: an error is stored and ends the closure; a page
\* is merged and either ends the loop and the closure or supplies the
\* cursor of the next request
ListPageReturn(p) ==
    LET c == CatOf(op[p])
        page == ServerPage(data, cursor[p])
        merged == MergeNodes(items[c], page.nodes, c) IN
    /\ pc[p] = "await"
    /\ Paginated(c)
    /\ \E e \in Outcomes(ctx[p]) :
          /\ requests' = [requests EXCEPT ![c] = Answered(@, e)]
          /\ IF e # NilErr
             THEN /\ err' = [err EXCEPT ![c] = e]
                  /\ UNCHANGED items
                  /\ cursor' = [cursor EXCEPT ![p] = NilCursor]
                  /\ Leave(p, c, e, items[c])
             ELSE /\ items' = [items EXCEPT ![c] = merged]
                  /\ UNCHANGED err
                  /\ IF LoopEnds(page)
                     THEN /\ cursor' = [cursor EXCEPT ![p] = NilCursor]
                          /\ Leave(p, c, err[c], merged)
                     ELSE /\ cursor' = [cursor EXCEPT ![p] = NextCursor(page)]
                          /\ pc' = [pc EXCEPT ![p] = "request"]
                          /\ UNCHANGED <<onceDone, onceM, op, ctx, last,
                                         missed>>
    /\ UNCHANGED <<data, runs, calls, trigger>>

\* listAllTemplates(ctx, c.client) is sent
ListTemplatesCall(p) ==
    /\ pc[p] = "request"
    /\ CatOf(op[p]) = "templates"
    /\ requests' = [requests EXCEPT !["templates"] =
                        Append(@, Request(NilCursor, onceDone["templates"]))]
    /\ pc' = [pc EXCEPT ![p] = "await"]
    /\ UNCHANGED <<data, onceDone, onceM, items, err, runs,
                   op, ctx, cursor, last, calls, trigger, missed>>

\* listAllTemplates returns: an error is stored, or the map is made and
\* filled with the whole list; either way the closure ends
ListTemplatesReturn(p) ==
    LET c == "templates"
        filled == MergeNodes(MakeMap, WholeList(data), c) IN
    /\ pc[p] = "await"
    /\ CatOf(op[p]) = c
    /\ \E e \in Outcomes(ctx[p]) :
          /\ requests' = [requests EXCEPT ![c] = Answered(@, e)]
          /\ IF e # NilErr
             THEN /\ err' = [err EXCEPT ![c] = e]
                  /\ UNCHANGED items
                  /\ Leave(p, c, e, items[c])
             ELSE /\ items' = [items EXCEPT ![c] = filled]
                  /\ UNCHANGED err
                  /\ Leave(p, c, err[c], filled)
    /\ UNCHANGED <<data, runs, cursor, calls, trigger>>

\* the context of a caller inside the populate closure is cancelled
Cancel(p) ==
    /\ pc[p] \in {"request", "await"}
    /\ ctx[p] = "live"
    /\ ctx' = [ctx EXCEPT ![p] = "cancelled"]
    /\ UNCHANGED <<data, onceDone, onceM, items, err, requests, runs,
                   pc, op, cursor, last, calls, trigger, missed>>

Next ==
    \E p \in Callers :
        \/ Call(p)
        \/ Wake(p)
        \/ ListPageCall(p)
        \/ ListPageReturn(p)
        \/ ListTemplatesCall(p)
        \/ ListTemplatesReturn(p)
        \/ Cancel(p)

Spec == Init /\ [][Next]_vars

\* the steps of a goroutine inside a lookup method (at most one of them
\* is enabled at a time)
Step(p) ==
    \/ Wake(p)
    \/ ListPageCall(p)
    \/ ListPageReturn(p)
    \/ ListTemplatesCall(p)
    \/ ListTemplatesReturn(p)

\* the scheduler runs every goroutine that can take a step, and every
\* remote call returns; nothing obliges a goroutine to call or a context
\* to be cancelled
FairSpec == Spec /\ \A p \in Callers : WF_vars(Step(p))

(* --------------------------- claim helpers ---------------------------- *)

\* the records of the remote dataset
DataRecs ==
    UNION {{data[i].nodes[j] : j \in 1..Len(data[i].nodes)} : i \in 1..Len(data)}

\* the arguments the claims quantify over: every identifier, key and team
\* of the dataset and the ones no record has
Probes == {r.id : r \in DataRecs} \cup {r.key : r \in DataRecs}
            \cup {r.team : r \in DataRecs} \cup {"zz", "T3"}

OpsOf(c) == {o \in Ops : CatOf(o) = c}

\* a populate closure of category c is running
InFlight(c) ==
    \E p \in Callers : pc[p] \in {"request", "await"} /\ CatOf(op[p]) = c

\* some lookup of category c has been called
Touched(c) ==
    \/ \E p \in Callers : pc[p] # "idle" /\ CatOf(op[p]) = c
    \/ last.op # "none" /\ CatOf(last.op) = c

\* the last returned lookup was one of category c
LastOn(c) == last.op # "none" /\ CatOf(last.op) = c

IsFailure(e) == e \in {TransportErr, CanceledErr}

(* ------------------------------- claims ------------------------------- *)

\* C1: for every category, however the lookups interleave, the populate
\* closure is entered exactly once as soon as a lookup has been called, at
\* most one goroutine is inside it, list requests exist only once it was
\* entered, an outstanding request belongs to the goroutine inside it, and
\* the traversal is started (a nil-cursor request) at most once.
C1_PopulateStartedOnce ==
    \A c \in Cats :
        /\ runs[c] <= 1
        /\ Touched(c) => runs[c] = 1
        /\ Cardinality({p \in Callers : pc[p] \in {"request", "await"}
                                          /\ CatOf(op[p]) = c}) <= 1
        /\ requests[c] # <<>> => runs[c] = 1
        /\ \A i \in 1..Len(requests[c]) :
              requests[c][i].out = Pending =>
                  \E p \in Callers : pc[p] = "await" /\ CatOf(op[p]) = c
        /\ Cardinality({i \in 1..Len(requests[c]) :
                           requests[c][i].cursor = NilCursor}) <= 1

\* C1 witness: a second caller arrived while the first was fetching, waited,
\* and returned without having entered the closure
C1_Witness ==
    /\ last.via = "waited"
    /\ runs[CatOf(last.op)] = 1
    /\ Len(requests[CatOf(last.op)]) >= 1

\* C2: a lookup returns only when the gate of its category has completed
\* and no closure of the category is running, and what it returned is what
\* the terminal error slot and map give for its arguments.
C2_NoPartialObservation ==
    last.op # "none" =>
        LET c == CatOf(last.op) IN
        /\ onceDone[c]
        /\ ~InFlight(c)
        /\ onceM[c] = 0
        /\ Result(last.val, last.e)
              \in LookupResults(err[c], items[c], last.op, last.arg)

\* C2 witness: a caller that waited for a running fetch got an item
C2_Witness ==
    /\ last.via = "waited"
    /\ last.e = NilErr
    /\ last.val # <<>>

\* C3: in a paginated category whose page 1 succeeded and page 2 of 3
\* failed, the failed request is the last one ever sent (no page 3, no
\* second traversal), the error slot holds its error, and every lookup of
\* the category, for any argument, returns exactly that error and no item.
C3_StickyFailure ==
    \A c \in Cats :
        ( /\ Paginated(c)
          /\ data = ThreePages
          /\ Len(requests[c]) >= 2
          /\ requests[c][1].out = NilErr
          /\ IsFailure(requests[c][2].out) )
        =>
        /\ Len(requests[c]) = 2
        /\ err[c] = requests[c][2].out
        /\ onceDone[c]
        /\ \A o \in OpsOf(c) : \A a \in Probes :
              LookupResults(err[c], items[c], o, a) = {Result(<<>>, err[c])}
        /\ LastOn(c) => last.val = <<>> /\ last.e = err[c]

\* C3 witness: page 2 of 3 failed, and another caller asked for the page-1
\* identifier and got the stored transport error
C3_Witness ==
    /\ data = ThreePages
    /\ last.op = "GetLabel"
    /\ last.arg = "i1"
    /\ last.via = "skipped"
    /\ last.e = TransportErr
    /\ Len(requests["labels"]) = 2
    /\ "i1" \in DOMAIN items["labels"].m


\* the key the claims expect a record of category c to be stored under
IndexOf(c, r) == IF c = "teams" THEN r.key ELSE r.id

\* the number of list requests of one complete traversal of category c
TraversalLen(c) == IF Paginated(c) THEN Len(data) ELSE 1

\* the category has been populated successfully
Populated(c) == onceDone[c] /\ err[c] = NilErr

ByIdCats == {"labels", "workflowStates", "templates"}

ByIdOp(c) ==
    CASE c = "labels" -> "GetLabel"
      [] c = "workflowStates" -> "GetWorkflowState"
      [] c = "templates" -> "GetTemplate"

\* C4: after a successful population, GetLabel, GetWorkflowState and
\* GetTemplate return, for an identifier some record of the dataset has, a
\* record of the dataset with that identifier and no error, and for any
\* other identifier no record and the not-found error; a returned lookup
\* is such a result.
C4_GetByIDCorrect ==
    \A c \in ByIdCats :
        Populated(c) =>
        /\ \A i \in Probes :
              LET rs == LookupResults(err[c], items[c], ByIdOp(c), i) IN
              \A r \in rs :
                  IF \E d \in DataRecs : d.id = i
                  THEN /\ r.e = NilErr
                       /\ Len(r.val) = 1
                       /\ r.val[1] \in DataRecs
                       /\ r.val[1].id = i
                  ELSE r = Result(<<>>, NotFoundErr(c, i))
        /\ (LastOn(c) /\ last.op = ByIdOp(c)) =>
              IF \E d \in DataRecs : d.id = last.arg
              THEN /\ last.e = NilErr
                   /\ Len(last.val) = 1
                   /\ last.val[1] \in DataRecs
                   /\ last.val[1].id = last.arg
              ELSE /\ last.val = <<>>
                   /\ last.e = NotFoundErr(c, last.arg)

\* C4 witness: GetTemplate of an identifier no template has returned the
\* not-found error after a successful population
C4_Witness ==
    /\ data = ThreePages
    /\ last.op = "GetTemplate"
    /\ last.arg = "zz"
    /\ last.e = NotFoundErr("templates", "zz")
    /\ Populated("templates")
    /\ "i1" \in DOMAIN items["templates"].m

\* C5: once the gate of a category has completed, either the error slot is
\* nil, every request of the whole traversal was sent and succeeded, and
\* the map holds exactly the records of all pages under their keys; or the
\* error slot is set and no lookup returns an item.
C5_TwoTerminalStates ==
    \A c \in Cats :
        onceDone[c] =>
        \/ /\ err[c] = NilErr
           /\ ~items[c].nil
           /\ Len(requests[c]) = TraversalLen(c)
           /\ \A i \in 1..Len(requests[c]) : requests[c][i].out = NilErr
           /\ DOMAIN items[c].m = {IndexOf(c, d) : d \in DataRecs}
           /\ \A k \in DOMAIN items[c].m :
                 items[c].m[k] \in DataRecs /\ IndexOf(c, items[c].m[k]) = k
        \/ /\ IsFailure(err[c])
           /\ \A o \in OpsOf(c) : \A a \in Probes :
                 \A r \in LookupResults(err[c], items[c], o, a) :
                     r.val = <<>> /\ r.e = err[c]

\* C5 witness: a paginated category failed after page 1 had been merged:
\* the map holds an item, the error slot is set, the gate has completed
C5_Witness ==
    \E c \in Cats :
        /\ Paginated(c)
        /\ onceDone[c]
        /\ IsFailure(err[c])
        /\ DOMAIN items[c].m # {}
        /\ Len(requests[c]) < Len(data)

\* C6: no list request is ever sent for a category whose gate has
\* completed; over a run a category gets at most the requests of one
\* traversal, no page is requested twice, and exactly the requests of one
\* complete traversal when it was populated successfully, however many
\* lookups were made.
C6_NoRefetch ==
    \A c \in Cats :
        /\ \A i \in 1..Len(requests[c]) : ~requests[c][i].late
        /\ Len(requests[c]) <= TraversalLen(c)
        /\ \A i, j \in 1..Len(requests[c]) :
              i # j => requests[c][i].cursor # requests[c][j].cursor
        /\ Populated(c) => Len(requests[c]) = TraversalLen(c)
        /\ onceDone[c] => ~InFlight(c)

\* C6 witness: a lookup of a populated three-page category found the gate
\* completed and returned an item; three requests were sent in all
C6_Witness ==
    /\ data = ThreePages
    /\ last.via = "skipped"
    /\ last.e = NilErr
    /\ LET c == CatOf(last.op) IN
         /\ Paginated(c)
         /\ Len(requests[c]) = 3
         /\ last.val # <<>>

\* C7: for a paginated category and the three-page dataset with disjoint
\* identifiers, a successful population requested the cursors nil, A, B in
\* that order, and the map holds exactly the records of the three pages,
\* as many entries as there are items.
C7_PaginationAssembly ==
    \A c \in Cats :
        (Paginated(c) /\ data = ThreePages /\ Populated(c)) =>
        /\ [i \in 1..Len(requests[c]) |-> requests[c][i].cursor]
              = <<NilCursor, "A", "B">>
        /\ {items[c].m[k] : k \in DOMAIN items[c].m} = DataRecs
        /\ Cardinality(DOMAIN items[c].m)
              = Len(data[1].nodes) + Len(data[2].nodes) + Len(data[3].nodes)
        /\ Cardinality(DOMAIN items[c].m) = 3

\* C7 witness: the teams of the three pages are all in the map
C7_Witness ==
    /\ data = ThreePages
    /\ Populated("teams")
    /\ DOMAIN items["teams"].m = {"k1", "k2", "k3"}

\* C8: when a list request of a category failed because the context of the
\* caller that ran the closure was cancelled, that request is the last ever
\* sent, the error slot holds the cancellation error, the gate has
\* completed, the closure was entered once only, and every returned lookup
\* of the category, whatever its own context, carries that error.
C8_CancelledIsTerminal ==
    \A c \in Cats :
        (\E i \in 1..Len(requests[c]) : requests[c][i].out = CanceledErr) =>
        /\ requests[c][Len(requests[c])].out = CanceledErr
        /\ \A i \in 1..(Len(requests[c]) - 1) : requests[c][i].out = NilErr
        /\ err[c] = CanceledErr
        /\ onceDone[c]
        /\ ~InFlight(c)
        /\ runs[c] = 1
        /\ LastOn(c) => last.val = <<>> /\ last.e = CanceledErr

\* C8 witness: after page 1 the context of the fetching caller was
\* cancelled, and a caller with a live context got the cancellation error
C8_Witness ==
    /\ last.op # "none"
    /\ last.ctx = "live"
    /\ last.via # "ran"
    /\ last.e = CanceledErr
    /\ Len(requests[CatOf(last.op)]) = 2

\* C9: every call of a lookup method returns: a goroutine that is inside a
\* lookup, fetching or blocked on the gate, is eventually out of it.
C9_EveryLookupReturns ==
    \A p \in Callers : (pc[p] # "idle") ~> (pc[p] = "idle")

\* C9 witness: a caller that was blocked while another fetched has returned
\* after the fetch failed
C9_Witness ==
    /\ last.via = "waited"
    /\ IsFailure(last.e)
    /\ \A p \in Callers : pc[p] = "idle"

\* C10: a list operation that answers one page without items and without
\* a further page (templates: an empty list) leaves the gate completed,
\* the error slot nil and the map made and empty; lookups by identifier or
\* key return the not-found error, GetWorkflowStatesByTeamID returns no
\* record and no error.
C10_EmptyCategory ==
    \A c \in Cats :
        ( /\ data = EmptyPage
          /\ Len(requests[c]) >= 1
          /\ requests[c][1].out = NilErr )
        =>
        /\ onceDone[c]
        /\ err[c] = NilErr
        /\ ~items[c].nil
        /\ DOMAIN items[c].m = {}
        /\ Len(requests[c]) = 1
        /\ \A o \in OpsOf(c) : \A a \in Probes :
              LookupResults(err[c], items[c], o, a) =
                  IF o = "GetWorkflowStatesByTeamID"
                  THEN {Result(<<>>, NilErr)}
                  ELSE {Result(<<>>, NotFoundErr(c, a))}
        /\ LastOn(c) =>
              /\ last.val = <<>>
              /\ last.e = IF last.op = "GetWorkflowStatesByTeamID"
                          THEN NilErr ELSE NotFoundErr(c, last.arg)

\* C10 witness: GetWorkflowStatesByTeamID on the empty dataset returned an
\* empty sequence and no error
C10_Witness ==
    /\ data = EmptyPage
    /\ last.op = "GetWorkflowStatesByTeamID"
    /\ last.val = <<>>
    /\ last.e = NilErr
    /\ onceDone["workflowStates"]

\* the records a sequence holds
Elems(s) == {s[n] : n \in 1..Len(s)}

\* a sequence without repetition
NoRepeat(s) == \A a, b \in 1..Len(s) : a # b => s[a] # s[b]

\* C11: after a successful population of the workflow states,
\* GetWorkflowStatesByTeamID(t) returns no error and exactly the populated
\* workflow states whose owning team is t, each once, in any order; with
\* the owners {T1,T1,T2} it returns the two T1 records for T1 and an empty
\* sequence for T3; a returned call is such a result.
C11_ByTeamIDExact ==
    Populated("workflowStates") =>
        LET mp == items["workflowStates"]
            held == {mp.m[k] : k \in DOMAIN mp.m}
            Owned(t) == {d \in held : d.team = t}
            Exact(r, t) == /\ r.e = NilErr
                           /\ Elems(r.val) = Owned(t)
                           /\ NoRepeat(r.val)
        IN
        /\ held = {d \in DataRecs : \A d2 \in DataRecs :
                                      d2.id = d.id => d2.page <= d.page}
        /\ \A t \in Probes :
              \A r \in GetByTeamID(err["workflowStates"], mp, t) : Exact(r, t)
        /\ data = ThreePages =>
              /\ \A r \in GetByTeamID(err["workflowStates"], mp, "T1") :
                    /\ Len(r.val) = 2
                    /\ Elems(r.val) = {Rec("i1", "k1", "T1", 1),
                                       Rec("i2", "k2", "T1", 2)}
              /\ GetByTeamID(err["workflowStates"], mp, "T3")
                    = {Result(<<>>, NilErr)}
        /\ last.op = "GetWorkflowStatesByTeamID" =>
              /\ Exact(Result(last.val, last.e), last.arg)
              /\ (data = ThreePages /\ last.arg = "T1") => Len(last.val) = 2
              /\ last.arg = "T3" => last.val = <<>>

\* C11 witness: with the owners {T1,T1,T2}, GetWorkflowStatesByTeamID("T1")
\* returned two records
C11_Witness ==
    /\ data = ThreePages
    /\ last.op = "GetWorkflowStatesByTeamID"
    /\ last.arg = "T1"
    /\ last.e = NilErr
    /\ Len(last.val) = 2

\* a step in which a lookup method returns (its result is in last')
ReturnStep ==
    \/ calls' # calls /\ pc' = pc
    \/ \E p \in Callers : pc[p] # "idle" /\ pc'[p] = "idle"

\* the keys the records of the dataset are stored under in category c
DataKeys(c) == {IndexOf(c, d) : d \in DataRecs}

\* C12: the error slot never holds a not-found error; a lookup that
\* returns not-found returns it from a successfully populated category,
\* and, unless its own call ran the populate closure, leaves the gate, the
\* map and the error slot as they were; once a lookup of a category has
\* returned not-found the category is still populated with every key of
\* the dataset, and a lookup of a present identifier (key) returns its
\* record.
C12_NotFoundDoesNotPoison ==
    /\ [](\A c \in Cats :
            /\ err[c].kind # NotFoundKind
            /\ missed[c] =>
                  /\ Populated(c)
                  /\ DOMAIN items[c].m = DataKeys(c)
                  /\ \A o \in OpsOf(c) \ {"GetWorkflowStatesByTeamID"} :
                        \A a \in DataKeys(c) :
                            \A r \in LookupResults(err[c], items[c], o, a) :
                                /\ r.e = NilErr
                                /\ Len(r.val) = 1
                                /\ IndexOf(c, r.val[1]) = a
                  /\ ( /\ LastOn(c)
                       /\ last.op # "GetWorkflowStatesByTeamID"
                       /\ last.arg \in DataKeys(c) )
                     => /\ last.e = NilErr
                        /\ Len(last.val) = 1
                        /\ IndexOf(c, last.val[1]) = last.arg)
    /\ [][(ReturnStep /\ last'.e.kind = NotFoundKind) =>
             LET c == CatOf(last'.op) IN
             /\ onceDone'[c]
             /\ err'[c] = NilErr
             /\ DOMAIN items'[c].m = DataKeys(c)
             /\ last'.via # "ran" =>
                   /\ onceDone'[c] = onceDone[c]
                   /\ items'[c] = items[c]
                   /\ err'[c] = err[c]]_vars

\* C12 witness: after a lookup of the category had returned not-found, a
\* lookup of a present identifier found the gate completed and returned
\* its record
C12_Witness ==
    /\ last.op \in {"GetLabel", "GetTeamByKey"}
    /\ missed[CatOf(last.op)]
    /\ last.via = "skipped"
    /\ last.e = NilErr
    /\ last.val # <<>>
    /\ last.arg \in DataKeys(CatOf(last.op))

\* the state of category c changes in a step
CatChanged(c) ==
    \/ onceDone'[c] # onceDone[c]
    \/ onceM'[c] # onceM[c]
    \/ items'[c] # items[c]
    \/ err'[c] # err[c]
    \/ requests'[c] # requests[c]
    \/ runs'[c] # runs[c]

\* a step changes the state of one category at most, the one whose
\* populate closure the acting goroutine enters or is inside
OwnCategoryOnly ==
    \A c \in Cats :
        CatChanged(c) =>
            /\ \A d \in Cats \ {c} : ~CatChanged(d)
            /\ \E p \in Callers :
                  \/ pc[p] \in {"request", "await"} /\ CatOf(op[p]) = c
                  \/ /\ pc[p] \in {"idle", "blocked"}
                     /\ pc'[p] = "request"
                     /\ CatOf(op'[p]) = c

\* a call blocks only on the running closure of its own category
BlocksOnOwnGate ==
    \A p \in Callers :
        (pc[p] = "idle" /\ pc'[p] = "blocked") =>
            /\ onceM[CatOf(op'[p])] # 0
            /\ InFlight(CatOf(op'[p]))

\* C13: the state of a category comes from its own traversal only (a set
\* error slot holds the error of the category's own last request, a made
\* map and a completed gate belong to a category whose closure ran), a
\* populated category answers with records whatever state the other
\* categories are in, every step changes the state of the one category
\* whose populate closure the acting goroutine enters or is inside, and a
\* call blocks only when the closure of its own category is running.
C13_CategoriesIndependent ==
    /\ [](\A c \in Cats :
            /\ err[c] # NilErr =>
                  /\ requests[c] # <<>>
                  /\ requests[c][Len(requests[c])].out = err[c]
            /\ (~items[c].nil \/ onceDone[c] \/ onceM[c] # 0) => runs[c] = 1
            /\ Populated(c) =>
                  /\ DOMAIN items[c].m = DataKeys(c)
                  /\ LastOn(c) => ~IsFailure(last.e))
    /\ [][OwnCategoryOnly /\ BlocksOnOwnGate]_vars

\* C13 witness: the populate closure of one category failed, and a lookup
\* of another category ran its own closure and returned a record
C13_Witness ==
    /\ last.via = "ran"
    /\ last.e = NilErr
    /\ last.val # <<>>
    /\ \E d \in Cats \ {CatOf(last.op)} : onceDone[d] /\ IsFailure(err[d])

\* the page the i-th list request of category c was (or will be) answered
\* with
PageOf(c, i) == ServerPage(data, requests[c][i].cursor)

\* C14: in a paginated category the first list request carries the nil
\* cursor and each later one the end-cursor of the page answered to the
\* request before it; every request but the last has returned without
\* error a page that reports a further page, so at most one request is
\* outstanding and none follows a failed request or a last page; the
\* goroutine about to send holds exactly the cursor the chain prescribes,
\* and the one waiting for an answer waits for the last request.
C14_CursorChain ==
    \A c \in Cats :
        Paginated(c) =>
        LET n == Len(requests[c]) IN
        /\ n >= 1 => requests[c][1].cursor = NilCursor
        /\ \A i \in 1..(n - 1) :
              /\ requests[c][i].out = NilErr
              /\ PageOf(c, i).hasNextPage
              /\ requests[c][i + 1].cursor = PageOf(c, i).endCursor
        /\ \A p \in Callers :
              CatOf(op[p]) = c =>
              /\ pc[p] = "await" =>
                    /\ n >= 1
                    /\ requests[c][n].out = Pending
                    /\ requests[c][n].cursor = cursor[p]
              /\ pc[p] = "request" =>
                    IF n = 0 THEN cursor[p] = NilCursor
                    ELSE /\ requests[c][n].out = NilErr
                         /\ PageOf(c, n).hasNextPage
                         /\ cursor[p] = PageOf(c, n).endCursor
        /\ (n >= 1 /\ requests[c][n].out = Pending) =>
              \E p \in Callers : pc[p] = "await" /\ CatOf(op[p]) = c
        /\ (n >= 1 /\ requests[c][n].out # Pending
                   /\ (requests[c][n].out # NilErr \/ ~PageOf(c, n).hasNextPage))
           => onceDone[c] /\ ~InFlight(c)

\* C14 witness: the third request of the three-page dataset is outstanding
\* with the end-cursor of page 2, after pages 1 and 2 were answered
C14_Witness ==
    \E p \in Callers :
        /\ data = ThreePages
        /\ pc[p] = "await"
        /\ Paginated(CatOf(op[p]))
        /\ cursor[p] = "B"
        /\ Len(requests[CatOf(op[p])]) = 3
        /\ requests[CatOf(op[p])][2].cursor = "A"
        /\ requests[CatOf(op[p])][3].out = Pending

\* the map or the error slot of category c is written in a step
Written(c) == items'[c] # items[c] \/ err'[c] # err[c]

\* C15: a write to the map or the error slot of a category happens with
\* the gate not yet completed, in the one populate execution (by the
\* goroutine that holds the gate's mutex or takes it to enter the closure
\* for the first time); once the gate has completed no step changes the
\* gate, the map, the error slot or the request history again; and a
\* lookup that did not run the closure returns only from a completed
\* gate.
C15_TerminalFrame ==
    /\ [](last.via \in {"waited", "skipped"} => onceDone[CatOf(last.op)])
    /\ [][\A c \in Cats :
             /\ Written(c) =>
                   /\ ~onceDone[c]
                   /\ runs'[c] = 1
                   /\ \/ onceM[c] # 0 /\ pc[onceM[c]] = "await"
                      \/ onceM[c] = 0 /\ runs[c] = 0 /\ onceM'[c] # 0
             /\ onceDone[c] =>
                   /\ onceDone'[c]
                   /\ onceM'[c] = onceM[c]
                   /\ items'[c] = items[c]
                   /\ err'[c] = err[c]
                   /\ requests'[c] = requests[c]
                   /\ runs'[c] = runs[c]]_vars

\* C15 witness: a caller that had waited for the populate execution was
\* released after it, found the populated map and returned not-found
C15_Witness ==
    /\ last.via = "waited"
    /\ last.e.kind = NotFoundKind
    /\ Paginated(CatOf(last.op))
    /\ Populated(CatOf(last.op))
    /\ DOMAIN items[CatOf(last.op)].m # {}
    /\ DOMAIN items[CatOf(last.op)].m = DataKeys(CatOf(last.op))

\* C16: with the dataset that delivers the identifier i1 (key k1) on page
\* 1 and again on page 2, both requests of a paginated category succeed
\* and the population succeeds, the map holds one entry per distinct key
\* (two entries for three delivered items), the entry of the repeated key
\* is the record of page 2, and a lookup of it returns that record.
C16_LastWriteWins ==
    \A c \in Cats :
        ( /\ Paginated(c)
          /\ data = DupPages
          /\ Len(requests[c]) = 2
          /\ requests[c][2].out = NilErr )
        =>
        LET k == IF c = "teams" THEN "k1" ELSE "i1"
            later == Rec("i1", "k1", "T2", 2) IN
        /\ Populated(c)
        /\ DOMAIN items[c].m = (IF c = "teams" THEN {"k1", "k2"}
                                                ELSE {"i1", "i2"})
        /\ Cardinality(DOMAIN items[c].m) = 2
        /\ items[c].m[k] = later
        /\ \A o \in OpsOf(c) \ {"GetWorkflowStatesByTeamID"} :
              LookupResults(err[c], items[c], o, k) = {Result(<<later>>, NilErr)}
        /\ (LastOn(c) /\ last.op # "GetWorkflowStatesByTeamID" /\ last.arg = k)
              => last.val = <<later>> /\ last.e = NilErr
        /\ (LastOn(c) /\ last.op = "GetWorkflowStatesByTeamID"
                      /\ last.arg = "T1")
              => last.val = <<Rec("i2", "k2", "T1", 1)>> /\ last.e = NilErr

\* C16 witness: GetTeamByKey of the key delivered on both pages returned
\* the team of page 2
C16_Witness ==
    /\ data = DupPages
    /\ last.op = "GetTeamByKey"
    /\ last.arg = "k1"
    /\ last.e = NilErr
    /\ last.val = <<Rec("i1", "k1", "T2", 2)>>

\* C17: after a successful population of the teams, GetTeamByKey(k)
\* returns, for every key k some team of the dataset has, one team whose
\* key is k and no error, and for every other string, the identifiers of
\* the teams included, no team and the not-found error; the map is
\* indexed by the keys and by no identifier; a returned call is such a
\* result.
C17_TeamsKeyedByKey ==
    Populated("teams") =>
        LET mp == items["teams"]
            keys == {d.key : d \in DataRecs}
            ids == {d.id : d \in DataRecs}
            Right(r, k) ==
                IF k \in keys
                THEN /\ r.e = NilErr
                     /\ Len(r.val) = 1
                     /\ r.val[1] \in DataRecs
                     /\ r.val[1].key = k
                ELSE r = Result(<<>>, NotFoundErr("teams", k))
        IN
        /\ DOMAIN mp.m = keys
        /\ DOMAIN mp.m \cap ids = {}
        /\ \A k \in Probes :
              \A r \in LookupResults(err["teams"], mp, "GetTeamByKey", k) :
                  Right(r, k)
        /\ \A i \in ids :
              LookupResults(err["teams"], mp, "GetTeamByKey", i)
                  = {Result(<<>>, NotFoundErr("teams", i))}
        /\ last.op = "GetTeamByKey" =>
              Right(Result(last.val, last.e), last.arg)

\* C17 witness: GetTeamByKey of a string that is the identifier of a team
\* of the populated dataset returned not-found
C17_Witness ==
    /\ data = ThreePages
    /\ Populated("teams")
    /\ last.op = "GetTeamByKey"
    /\ last.arg = "i1"
    /\ last.val = <<>>
    /\ last.e = NotFoundErr("teams", "i1")
    /\ items["teams"].m["k1"].id = "i1"

\* C18: a category whose populate closure was never entered has a nil
\* map, a nil error slot, an unfired and unlocked gate and no list
\* request; that is the state of every category of a newly constructed
\* cache, before any lookup is called; a category gets list requests only
\* after one of its own lookup methods was called and entered its closure,
\* and no more categories are populated than lookups were called.
C18_LazyPopulation ==
    /\ \A c \in Cats :
          /\ runs[c] = 0 =>
                /\ items[c].nil
                /\ DOMAIN items[c].m = {}
                /\ err[c] = NilErr
                /\ ~onceDone[c]
                /\ onceM[c] = 0
                /\ requests[c] = <<>>
                /\ trigger[c] = "none"
          /\ requests[c] # <<>> =>
                /\ runs[c] >= 1
                /\ trigger[c] \in OpsOf(c)
                /\ calls >= 1
    /\ calls = 0 =>
          /\ \A c \in Cats : runs[c] = 0
          /\ \A p \in Callers : pc[p] = "idle"
          /\ last = NoLast
    /\ Cardinality({c \in Cats : runs[c] > 0}) <= calls

\* C18 witness: one category has been populated by a lookup while the
\* three others are still as constructed
C18_Witness ==
    \E c \in Cats :
        /\ Populated(c)
        /\ Len(requests[c]) = TraversalLen(c)
        /\ LastOn(c)
        /\ \A d \in Cats \ {c} :
              /\ items[d].nil
              /\ err[d] = NilErr
              /\ ~onceDone[d]
              /\ requests[d] = <<>>

WsOps == {"GetWorkflowState", "GetWorkflowStatesByTeamID"}

\* C19: GetWorkflowState and GetWorkflowStatesByTeamID go through the one
\* workflow-state gate: whichever of them is called, the populate closure
\* of the workflow states is entered once at most, by one of the two, at
\* most one goroutine of either method is inside it, no other category is
\* populated by them, the list requests are those of one traversal, and a
\* returned call of either method answers from the completed gate, the
\* map and the error slot of the workflow states: when the traversal
\* failed, both return the stored error.
C19_SharedWorkflowStateGate ==
    LET c == "workflowStates" IN
    /\ runs[c] <= 1
    /\ trigger[c] \in WsOps \cup {"none"}
    /\ trigger["labels"] \in {"none", "GetLabel"}
    /\ trigger["templates"] \in {"none", "GetTemplate"}
    /\ trigger["teams"] \in {"none", "GetTeamByKey"}
    /\ Cardinality({p \in Callers : pc[p] \in {"request", "await"}
                                      /\ op[p] \in WsOps}) <= 1
    /\ \A p \in Callers :
          (pc[p] \in {"request", "await"} /\ op[p] \in WsOps) =>
              onceM[c] = p /\ trigger[c] = op[p]
    /\ \A p \in Callers :
          (pc[p] = "blocked" /\ op[p] \in WsOps) => runs[c] = 1
    /\ Len(requests[c]) <= Len(data)
    /\ Cardinality({i \in 1..Len(requests[c]) :
                       requests[c][i].cursor = NilCursor}) <= 1
    /\ last.op \in WsOps =>
          /\ onceDone[c]
          /\ runs[c] = 1
          /\ last.via = "ran" => trigger[c] = last.op
          /\ Result(last.val, last.e)
                \in LookupResults(err[c], items[c], last.op, last.arg)
          /\ err[c] # NilErr => last.val = <<>> /\ last.e = err[c]

\* C19 witness: GetWorkflowState ran the traversal, which failed after
\* page 1; a call of GetWorkflowStatesByTeamID that had waited at the gate
\* returned the same error without a list request of its own
C19_Witness ==
    /\ trigger["workflowStates"] = "GetWorkflowState"
    /\ last.op = "GetWorkflowStatesByTeamID"
    /\ last.via = "waited"
    /\ last.e = TransportErr
    /\ err["workflowStates"] = TransportErr
    /\ runs["workflowStates"] = 1
    /\ Len(requests["workflowStates"]) = 2

====
